---------------------------- MODULE Spec2Model ----------------------------
(***************************************************************************)
(* Content resolution layer of the blog: src/lib/posts.ts (the aggregator  *)
(* and the standalone post repository) and src/unnamed/part_001 (the       *)
(* module repository, imported by posts.ts as './modules').                *)
(*                                                                         *)
(* The state is the content tree on disk (content/posts and                *)
(* content/modules) together with the last read operation and what it      *)
(* returned (call, ret), the post the post page holds between its calls    *)
(* (held), and, beside an author who edits the content, the call that is   *)
(* running (pending).  On content that does not change every exported      *)
(* function is one action; beside the author it is one step for each of    *)
(* its file-system calls.                                                  *)
(*                                                                         *)
(* Representation.  Strings the code only tests for equality (slugs, file  *)
(* names, titles, bodies) are TLA+ strings.  Strings the code orders       *)
(* (dates, tags) are sequences of UTF-16 code units, so that the string    *)
(* comparison of JavaScript and the parse of `new Date(s)` are computed    *)
(* and not assumed.  An optional value (`Post | null`, `module?: string`)  *)
(* is a sequence of length 0 or 1.  The derived field readingTime (a       *)
(* function of the body alone, computed by the reading-time package) is    *)
(* not part of the record.                                                 *)
(***************************************************************************)
EXTENDS Integers, Sequences, FiniteSets, TLC

VARIABLES postsDir, modulesDir, call, ret, held, pending

vars == <<postsDir, modulesDir, call, ret, held, pending>>

-----------------------------------------------------------------------------
(* Strings as sequences of UTF-16 code units                               *)

\* The comparison of two strings by code units: -1, 0 or 1
\* (the abstract relational comparison of ECMAScript on strings).
RECURSIVE StrCompare(_, _)
StrCompare(s, t) ==
  IF s = <<>> /\ t = <<>> THEN 0
  ELSE IF s = <<>> THEN -1
  ELSE IF t = <<>> THEN 1
  ELSE IF Head(s) < Head(t) THEN -1
  ELSE IF Head(s) > Head(t) THEN 1
  ELSE StrCompare(Tail(s), Tail(t))

StrLess(s, t) == StrCompare(s, t) < 0

IsDigit(c) == c >= 48 /\ c <= 57

DigitsValue(s, from, to) ==
  LET v[i \in (from - 1)..to] ==
        IF i < from THEN 0 ELSE 10 * v[i - 1] + (s[i] - 48)
  IN v[to]

\* Days from the epoch to the first day of year y (ECMAScript DayFromYear).
DayFromYear(y) ==
  365 * (y - 1970) + ((y - 1969) \div 4) - ((y - 1901) \div 100)
    + ((y - 1601) \div 400)

IsLeapYear(y) == (y % 4 = 0) /\ ((y % 100 # 0) \/ (y % 400 = 0))

DaysBeforeMonth(y, m) ==
  LET len == <<31, IF IsLeapYear(y) THEN 29 ELSE 28, 31, 30, 31, 30,
               31, 31, 30, 31, 30, 31>>
      acc[i \in 0..12] == IF i = 0 THEN 0 ELSE acc[i - 1] + len[i]
  IN acc[m - 1]

\* The string has the date-only ISO form YYYY-MM-DD.
IsDateOnlyForm(s) ==
  /\ Len(s) = 10
  /\ s[5] = 45 /\ s[8] = 45
  /\ \A i \in {1, 2, 3, 4, 6, 7, 9, 10} : IsDigit(s[i])

\* The time value of the UTC midnight that starts a day, or NaN when the
\* month or the day is out of range.
MakeTime(year, month, day) ==
  IF month \in 1..12 /\ day \in 1..31
  THEN [nan |-> FALSE,
        days |-> DayFromYear(year) + DaysBeforeMonth(year, month) + day - 1]
  ELSE [nan |-> TRUE, days |-> 0]

\* new Date(s).getTime() for the strings of this model: the date-only ISO
\* form YYYY-MM-DD (UTC midnight), and strings holding no number at all,
\* among them the empty string, which give NaN.  The time value is kept in
\* days (getTime() is this number times 86,400,000).
DateGetTime(s) ==
  IF IsDateOnlyForm(s)
  THEN MakeTime(DigitsValue(s, 1, 4), DigitsValue(s, 6, 7), DigitsValue(s, 9, 10))
  ELSE [nan |-> TRUE, days |-> 0]

\* ta - tb on two time values, with the NaN a comparator result is turned
\* into by Array.prototype.sort (NaN counts as +0).
SubtractTimes(ta, tb) == IF ta.nan \/ tb.nan THEN 0 ELSE ta.days - tb.days

\* new Date(a).getTime() - new Date(b).getTime()
TimeDifference(a, b) == SubtractTimes(DateGetTime(a), DateGetTime(b))

-----------------------------------------------------------------------------
(* The content tree.                                                       *)
(*   file      [base, ext, data, content]: the file base.ext, its          *)
(*             frontmatter (a function from the keys it declares) and body *)
(*   postsDir  [exists, files]: content/posts in directory-scan order      *)
(*   modulesDir [exists, entries]: content/modules in scan order, each     *)
(*             entry [name, isDir, files]                                  *)

Null == <<>>
Some(v) == <<v>>

Has(data, key) == key \in DOMAIN data

\* fileName.endsWith('.md') || fileName.endsWith('.mdx')
IsMarkdown(file) == file.ext \in {"md", "mdx"}

\* fileName !== 'metadata.md'
IsMetadataFile(file) == file.base = "metadata" /\ file.ext = "md"

\* fileName.replace(/\.(md|mdx)$/, '')
SlugOfFileName(file) == file.base

\* Index (from 1) of the file base.ext in a directory listing, 0 if absent.
FileIndex(files, base, ext) ==
  IF \E i \in 1..Len(files) : files[i].base = base /\ files[i].ext = ext
  THEN CHOOSE i \in 1..Len(files) : files[i].base = base /\ files[i].ext = ext
  ELSE 0

\* Array.prototype.indexOf / findIndex: the first position, from 0, or -1.
IndexOf(seq, x) ==
  IF \E i \in 1..Len(seq) : seq[i] = x
  THEN (CHOOSE i \in 1..Len(seq) :
          seq[i] = x /\ \A j \in 1..(i - 1) : seq[j] # x) - 1
  ELSE -1

FindIndexBySlug(list, slug) ==
  IndexOf([i \in 1..Len(list) |-> list[i].slug], slug)

RECURSIVE Flatten(_)
Flatten(seqs) ==
  IF seqs = <<>> THEN <<>> ELSE Head(seqs) \o Flatten(Tail(seqs))

\* The fields every load path builds from the frontmatter with `||`
\* defaults; module is set by the caller.
\* A record that takes its module from the frontmatter when it declares one.
PostFieldsFrontmatterModule(slug, file, moduleField) ==
  [slug        |-> slug,
   title       |-> IF Has(file.data, "title") THEN file.data.title ELSE "",
   date        |-> IF Has(file.data, "date") THEN file.data.date ELSE <<>>,
   description |-> IF Has(file.data, "description")
                   THEN Some(file.data.description) ELSE Null,
   tags        |-> IF Has(file.data, "tags") THEN file.data.tags ELSE <<>>,
   category    |-> IF Has(file.data, "category")
                   THEN Some(file.data.category) ELSE Null,
   featured    |-> IF Has(file.data, "featured") THEN file.data.featured ELSE FALSE,
   draft       |-> IF Has(file.data, "draft") THEN file.data.draft ELSE FALSE,
   module      |-> IF Has(file.data, "module")
                   THEN Some(file.data.module) ELSE moduleField,
   content     |-> file.content]

PostFields(slug, file, moduleField) ==
  LET data == file.data
  IN [slug        |-> slug,
      title       |-> IF Has(data, "title") THEN data.title ELSE "",
      date        |-> IF Has(data, "date") THEN data.date ELSE <<>>,
      description |-> IF Has(data, "description")
                      THEN Some(data.description) ELSE Null,
      tags        |-> IF Has(data, "tags") THEN data.tags ELSE <<>>,
      category    |-> IF Has(data, "category")
                      THEN Some(data.category) ELSE Null,
      featured    |-> IF Has(data, "featured") THEN data.featured ELSE FALSE,
      draft       |-> IF Has(data, "draft") THEN data.draft ELSE FALSE,
      module      |-> moduleField,
      content     |-> file.content]

\* A listing that forgets the draft filter.
NotDraftKeepsAll(post) == TRUE

\* .filter((post) => !post.draft)
NotDraft(post) == ~post.draft

-----------------------------------------------------------------------------
(* Comparators, and Array.prototype.sort as the engine runs it for an      *)
(* array shorter than 64 elements: one natural run is found (and reversed  *)
(* when strictly descending), the rest is added by binary insertion.       *)

DefaultOrder == 999

\* (a.order || 999) - (b.order || 999)
CompareModules(a, b) ==
  (IF a.order # 0 THEN a.order ELSE DefaultOrder)
    - (IF b.order # 0 THEN b.order ELSE DefaultOrder)

\* A comparator that consults the dates before the postOrder.
CompareDatesFirst(postOrder, a, b) == TimeDifference(a.date, b.date)

\* The comparator of a module with a postOrder, from the two indexOf
\* results.
CompareIndexes(indexA, indexB, a, b) ==
  IF indexA # -1 /\ indexB # -1 THEN indexA - indexB
  ELSE IF indexA # -1 THEN -1
  ELSE IF indexB # -1 THEN 1
  ELSE TimeDifference(a.date, b.date)

\* The comparator of a module with a postOrder.
ComparePostOrder(postOrder, a, b) ==
  CompareIndexes(IndexOf(postOrder, a.slug), IndexOf(postOrder, b.slug), a, b)

\* The comparator of a module without one.
CompareByDate(a, b) == TimeDifference(a.date, b.date)

\* The comparator with its two results exchanged.
CompareOldestFirst(a, b) == IF StrLess(a.date, b.date) THEN -1 ELSE 1

\* a.date < b.date ? 1 : -1
CompareNewestFirst(a, b) == IF StrLess(a.date, b.date) THEN 1 ELSE -1

\* The comparator a sort call is given: [kind |-> "modules"], "postOrder"
\* (with the postOrder), "date", "newestFirst", or "default" (no
\* comparator: strings by code units).
Compare(cmp, a, b) ==
  CASE cmp.kind = "modules" -> CompareModules(a, b)
    [] cmp.kind = "postOrder" -> ComparePostOrder(cmp.postOrder, a, b)
    [] cmp.kind = "date" -> CompareByDate(a, b)
    [] cmp.kind = "newestFirst" -> CompareNewestFirst(a, b)
    [] cmp.kind = "default" -> StrCompare(a, b)

Reverse(s) == [i \in 1..Len(s) |-> s[Len(s) + 1 - i]]

\* The run that starts the array is descending when the second element
\* compares below the first.
RunIsDescending(arr, cmp) == Compare(cmp, arr[2], arr[1]) < 0

\* A comparison result that ends the run: not below in a descending run,
\* below in an ascending one.
EndsRun(desc, order) == (desc /\ order >= 0) \/ (~desc /\ order < 0)

\* Length of that run.
CountRun(arr, cmp, desc) ==
  LET ext[idx \in 3..(Len(arr) + 1)] ==
        IF idx > Len(arr) THEN Len(arr)
        ELSE IF EndsRun(desc, Compare(cmp, arr[idx], arr[idx - 1]))
             THEN idx - 1
             ELSE ext[idx + 1]
  IN ext[3]

\* The array with its first run made ascending.
MakeRun(arr, desc, runLength) ==
  IF desc
  THEN Reverse(SubSeq(arr, 1, runLength)) \o SubSeq(arr, runLength + 1, Len(arr))
  ELSE arr

\* Where arr[start] belongs in the sorted prefix arr[1..start-1].
BinarySearch(arr, cmp, start) ==
  LET bs[left \in 1..start, right \in 1..start] ==
        IF left >= right THEN left
        ELSE IF Compare(cmp, arr[start], arr[left + ((right - left) \div 2)]) < 0
             THEN bs[left, left + ((right - left) \div 2)]
             ELSE bs[left + ((right - left) \div 2) + 1, right]
  IN bs[1, start]

\* arr[start] moved to position left, the elements between shifted up.
InsertPivot(arr, start, left) ==
  [p \in 1..Len(arr) |->
     IF p < left \/ p > start THEN arr[p]
     ELSE IF p = left THEN arr[start]
     ELSE arr[p - 1]]

InsertSorted(arr, cmp, start) ==
  InsertPivot(arr, start, BinarySearch(arr, cmp, start))

\* Binary insertion of the elements after the first run.
BinaryInsertionSort(made, cmp, runLength) ==
  LET ins[start \in runLength..Len(made)] ==
        IF start = runLength THEN made
        ELSE InsertSorted(ins[start - 1], cmp, start)
  IN ins[Len(made)]

SortFromRun(arr, cmp, desc, runLength) ==
  BinaryInsertionSort(MakeRun(arr, desc, runLength), cmp, runLength)

SortWithRun(arr, cmp, desc) ==
  SortFromRun(arr, cmp, desc, CountRun(arr, cmp, desc))

ArraySort(arr, cmp) ==
  IF Len(arr) < 2 THEN arr
  ELSE SortWithRun(arr, cmp, RunIsDescending(arr, cmp))

-----------------------------------------------------------------------------
(* Module repository (src/unnamed/part_001)                                *)

\* data.order || 999
OrderOrDefault(data) ==
  IF Has(data, "order") /\ data.order # 0 THEN data.order ELSE DefaultOrder

ModuleRecord(slug, metadataFile) ==
  LET data == metadataFile.data
  IN [slug        |-> slug,
      title       |-> IF Has(data, "title") THEN data.title ELSE "",
      description |-> IF Has(data, "description")
                      THEN Some(data.description) ELSE Null,
      order       |-> OrderOrDefault(data),
      postOrder   |-> IF Has(data, "postOrder") THEN data.postOrder ELSE <<>>]

HasMetadata(entry) == FileIndex(entry.files, "metadata", "md") # 0

MetadataOf(entry) == entry.files[FileIndex(entry.files, "metadata", "md")]

IsDirectory(entry) == entry.isDir

getAllModules ==
  IF ~modulesDir.exists THEN <<>>
  ELSE
    LET moduleDirs == SelectSeq(modulesDir.entries, IsDirectory)
        withMetadata == SelectSeq(moduleDirs, HasMetadata)
    IN ArraySort([i \in 1..Len(withMetadata) |->
                    ModuleRecord(withMetadata[i].name, MetadataOf(withMetadata[i]))],
                 [kind |-> "modules"])

\* The directory content/modules/<slug>, when it exists.
ModuleEntryIndex(slug) ==
  IF /\ modulesDir.exists
     /\ \E i \in 1..Len(modulesDir.entries) :
          modulesDir.entries[i].name = slug /\ modulesDir.entries[i].isDir
  THEN CHOOSE i \in 1..Len(modulesDir.entries) :
         modulesDir.entries[i].name = slug /\ modulesDir.entries[i].isDir
  ELSE 0

\* A lookup that takes every directory for a module, with an empty
\* descriptor when it has no metadata.md.
getModuleBySlugAnyDirectory(slug) ==
  IF ModuleEntryIndex(slug) = 0 THEN Null
  ELSE IF HasMetadata(modulesDir.entries[ModuleEntryIndex(slug)])
       THEN Some(ModuleRecord(slug,
                   MetadataOf(modulesDir.entries[ModuleEntryIndex(slug)])))
       ELSE Some(ModuleRecord(slug, [data |-> [title |-> ""]]))

\* A lookup that leaves the declared order out of the record.
getModuleBySlugDefaultOrder(slug) ==
  IF ModuleEntryIndex(slug) = 0
       \/ ~HasMetadata(modulesDir.entries[ModuleEntryIndex(slug)])
  THEN Null
  ELSE Some([ModuleRecord(slug,
               MetadataOf(modulesDir.entries[ModuleEntryIndex(slug)]))
               EXCEPT !.order = DefaultOrder])

getModuleBySlug(slug) ==
  LET i == ModuleEntryIndex(slug)
  IN IF i = 0 \/ ~HasMetadata(modulesDir.entries[i]) THEN Null
     ELSE Some(ModuleRecord(slug, MetadataOf(modulesDir.entries[i])))

\* A membership test that leaves metadata.md among the members.
IsMemberFileAnyMarkdown(file) == IsMarkdown(file)

IsMemberFile(file) == IsMarkdown(file) /\ ~IsMetadataFile(file)

\* The comparator getPostsByModule sorts with: the postOrder one when the
\* module declares a non-empty postOrder, the date one otherwise.
ModuleComparator(module) ==
  IF Len(module.postOrder) > 0
  THEN [kind |-> "postOrder", postOrder |-> module.postOrder]
  ELSE [kind |-> "date"]

\* The member files of a module directory, loaded as posts.
LoadModulePosts(files, moduleSlug) ==
  [i \in 1..Len(files) |->
     PostFields(SlugOfFileName(files[i]), files[i], Some(moduleSlug))]

ModuleFiles(moduleSlug) ==
  SelectSeq(modulesDir.entries[ModuleEntryIndex(moduleSlug)].files, IsMemberFile)

PostsOfModule(found, moduleSlug) ==
  IF found = Null THEN <<>>
  ELSE ArraySort(SelectSeq(LoadModulePosts(ModuleFiles(moduleSlug), moduleSlug),
                           NotDraft),
                 ModuleComparator(found[1]))

\* The result of getPostsByModule for a module whose directory scan
\* returns the given files.
PostsOfScan(files, module) ==
  ArraySort(SelectSeq(LoadModulePosts(SelectSeq(files, IsMemberFile), module.slug),
                      NotDraft),
            ModuleComparator(module))

getPostsByModule(moduleSlug) ==
  PostsOfModule(getModuleBySlug(moduleSlug), moduleSlug)

PostsOfModules(modules) ==
  Flatten([i \in 1..Len(modules) |-> getPostsByModule(modules[i].slug)])

getAllPostsFromModules == PostsOfModules(getAllModules)

\* The cross-module lookup: the first module, in getAllModules order, whose
\* directory holds <slug>.md or else <slug>.mdx.
RECURSIVE ModulePostIn(_, _)
ModulePostIn(modules, slug) ==
  IF modules = <<>> THEN Null
  ELSE
    LET module == Head(modules)
        files == modulesDir.entries[ModuleEntryIndex(module.slug)].files
        md == FileIndex(files, slug, "md")
        mdx == FileIndex(files, slug, "mdx")
    IN IF md # 0 THEN Some(PostFields(slug, files[md], Some(module.slug)))
       ELSE IF mdx # 0 THEN Some(PostFields(slug, files[mdx], Some(module.slug)))
       ELSE ModulePostIn(Tail(modules), slug)

\* The loop over the modules taken from the last module to the first.
getModulePostBySlugLastModule(slug) == ModulePostIn(Reverse(getAllModules), slug)

getModulePostBySlug(slug) == ModulePostIn(getAllModules, slug)

\* modulePosts[currentIndex + 1], when currentIndex is neither -1 nor the
\* last index.
NextAt(modulePosts, currentIndex) ==
  IF currentIndex = -1 \/ currentIndex = Len(modulePosts) - 1 THEN Null
  ELSE Some(modulePosts[(currentIndex + 1) + 1])

NextIn(modulePosts, slug) ==
  NextAt(modulePosts, FindIndexBySlug(modulePosts, slug))

getNextPostInModule(currentPost) ==
  IF currentPost.module = Null THEN Null
  ELSE NextIn(getPostsByModule(currentPost.module[1]), currentPost.slug)

\* modulePosts[currentIndex - 1], when currentIndex is above 0.
PreviousAt(modulePosts, currentIndex) ==
  IF currentIndex <= 0 THEN Null
  ELSE Some(modulePosts[(currentIndex - 1) + 1])

PreviousIn(modulePosts, slug) ==
  PreviousAt(modulePosts, FindIndexBySlug(modulePosts, slug))

getPreviousPostInModule(currentPost) ==
  IF currentPost.module = Null THEN Null
  ELSE PreviousIn(getPostsByModule(currentPost.module[1]), currentPost.slug)

ProgressAt(modulePosts, currentIndex) ==
  IF currentIndex = -1 THEN Null
  ELSE Some([current |-> currentIndex + 1, total |-> Len(modulePosts)])

ProgressIn(modulePosts, slug) ==
  ProgressAt(modulePosts, FindIndexBySlug(modulePosts, slug))

getModuleProgress(currentPost) ==
  IF currentPost.module = Null THEN Null
  ELSE ProgressIn(getPostsByModule(currentPost.module[1]), currentPost.slug)

-----------------------------------------------------------------------------
(* Aggregator and standalone post repository (src/lib/posts.ts)            *)

FeaturedLimit == 3

getStandalonePosts ==
  IF ~postsDir.exists THEN <<>>
  ELSE
    LET files == SelectSeq(postsDir.files, IsMarkdown)
    IN SelectSeq([i \in 1..Len(files) |->
                    PostFields(SlugOfFileName(files[i]), files[i], Null)],
                 NotDraft)

getAllPosts ==
  ArraySort(getAllPostsFromModules \o getStandalonePosts,
            [kind |-> "newestFirst"])

\* A standalone lookup that applies the draft filter of the listing.
StandalonePostPublished(slug) ==
  IF ~postsDir.exists THEN Null
  ELSE IF FileIndex(postsDir.files, slug, "md") # 0
  THEN SelectSeq(<<PostFields(slug,
                     postsDir.files[FileIndex(postsDir.files, slug, "md")], Null)>>,
                 NotDraft)
  ELSE IF FileIndex(postsDir.files, slug, "mdx") # 0
  THEN SelectSeq(<<PostFields(slug,
                     postsDir.files[FileIndex(postsDir.files, slug, "mdx")], Null)>>,
                 NotDraft)
  ELSE Null

\* A standalone lookup that probes <slug>.mdx before <slug>.md.
StandalonePostMdxFirst(slug) ==
  IF ~postsDir.exists THEN Null
  ELSE IF FileIndex(postsDir.files, slug, "mdx") # 0
  THEN Some(PostFields(slug,
              postsDir.files[FileIndex(postsDir.files, slug, "mdx")], Null))
  ELSE IF FileIndex(postsDir.files, slug, "md") # 0
  THEN Some(PostFields(slug,
              postsDir.files[FileIndex(postsDir.files, slug, "md")], Null))
  ELSE Null

\* The standalone lookup: <slug>.md or else <slug>.mdx in content/posts.
StandalonePost(slug) ==
  IF ~postsDir.exists THEN Null
  ELSE
    LET md == FileIndex(postsDir.files, slug, "md")
        mdx == FileIndex(postsDir.files, slug, "mdx")
    IN IF md # 0 THEN Some(PostFields(slug, postsDir.files[md], Null))
       ELSE IF mdx # 0 THEN Some(PostFields(slug, postsDir.files[mdx], Null))
       ELSE Null

\* The two lookups in the other order: the standalone file first.
FirstFoundStandalone(modulePost, slug) ==
  IF StandalonePost(slug) # Null THEN StandalonePost(slug) ELSE modulePost

FirstFound(modulePost, slug) ==
  IF modulePost # Null THEN modulePost ELSE StandalonePost(slug)

getPostBySlug(slug) == FirstFound(getModulePostBySlug(slug), slug)

IsFeatured(post) == post.featured

\* slice(0, n)
SliceFirst(list, n) == SubSeq(list, 1, IF Len(list) < n THEN Len(list) ELSE n)

\* The two steps in the other order: truncate, then filter.
getFeaturedPostsSliceFirst ==
  SelectSeq(SliceFirst(getAllPosts, FeaturedLimit), IsFeatured)

getFeaturedPosts ==
  SliceFirst(SelectSeq(getAllPosts, IsFeatured), FeaturedLimit)

\* The tags in the order a Set keeps them: first insertion.
RECURSIVE SetInsertionOrder(_, _)
SetInsertionOrder(seen, rest) ==
  IF rest = <<>> THEN seen
  ELSE IF \E i \in 1..Len(seen) : seen[i] = Head(rest)
       THEN SetInsertionOrder(seen, Tail(rest))
       ELSE SetInsertionOrder(Append(seen, Head(rest)), Tail(rest))

\* The tags of the posts, in the order forEach meets them.
TagsInOrder(posts) == Flatten([i \in 1..Len(posts) |-> posts[i].tags])

\* The tags of the Set, without the sort.
getAllTagsUnsorted ==
  SetInsertionOrder(<<>>, TagsInOrder(getAllPosts))

getAllTags ==
  ArraySort(SetInsertionOrder(<<>>, TagsInOrder(getAllPosts)),
            [kind |-> "default"])

-----------------------------------------------------------------------------
(* Content trees the model starts from.  The library only reads; the tree  *)
(* is an input, drawn from the bounded families below.                     *)

MaxModuleFiles == 3

\* "2024-01-05", "2024-01-10", "2024-02-01" and the tags "a", "ab", "b", "c", "d"
DateJan05 == <<50, 48, 50, 52, 45, 48, 49, 45, 48, 53>>
DateJan10 == <<50, 48, 50, 52, 45, 48, 49, 45, 49, 48>>
DateFeb01 == <<50, 48, 50, 52, 45, 48, 50, 45, 48, 49>>
TagA == <<97>>
TagAb == <<97, 98>>
TagB == <<98>>
TagC == <<99>>
TagD == <<100>>
TagUpperB == <<66>>

MkFile(name, doc) ==
  [base |-> name[1], ext |-> name[2], data |-> doc.data, content |-> doc.content]

MetadataFile(data) ==
  [base |-> "metadata", ext |-> "md", data |-> data, content |-> ""]

DistinctNames(files) ==
  \A i, j \in 1..Len(files) :
    (files[i].base = files[j].base /\ files[i].ext = files[j].ext) => i = j

\* Every directory listing of at most n files, in every scan order.
Listings(names, docs, n) ==
  LET files == {MkFile(name, doc) : name \in names, doc \in docs}
  IN UNION {{l \in [1..k -> files] : DistinctNames(l)} : k \in 0..n}

ModuleDir(name, files) == [name |-> name, isDir |-> TRUE, files |-> files]

NoPostsDir == [exists |-> FALSE, files |-> <<>>]

\* One module "m" whose member files vary in name, extension, date and
\* draft flag, under several postOrder declarations.
OrderingNames == {<<"a", "md">>, <<"b", "md">>, <<"c", "md">>, <<"a", "mdx">>}

OrderingDocs ==
  {[data |-> [title |-> "Early", date |-> DateJan05], content |-> "early"],
   [data |-> [title |-> "Late", date |-> DateFeb01], content |-> "late"],
   [data |-> [title |-> "Undated"], content |-> "undated"],
   [data |-> [title |-> "Draft", date |-> DateJan10, draft |-> TRUE],
    content |-> "draft"]}

OrderingMetadata ==
  {[title |-> "M", order |-> 1],
   [title |-> "M", order |-> 1, postOrder |-> <<"a">>],
   [title |-> "M", order |-> 1, postOrder |-> <<"b", "zz", "b", "a">>]}

OrderingTrees ==
  {[posts |-> NoPostsDir,
    modules |-> [exists |-> TRUE,
                 entries |-> <<ModuleDir("m", <<MetadataFile(meta)>> \o files)>>]] :
     meta \in OrderingMetadata,
     files \in Listings(OrderingNames, OrderingDocs, MaxModuleFiles)}

\* Standalone posts beside one module: the global listing, tags, drafts and
\* slugs shared between the two directories.
MaxListingFiles == 2

ListingPostNames == {<<"a", "md">>, <<"b", "md">>, <<"a", "mdx">>}

ListingModuleNames == {<<"a", "md">>, <<"c", "md">>}

ListingDocs ==
  {[data |-> [title |-> "Alpha", date |-> DateFeb01, tags |-> <<TagB, TagA>>],
    content |-> "alpha"],
   [data |-> [title |-> "Beta", date |-> DateJan05, tags |-> <<TagA, TagC>>,
              featured |-> TRUE],
    content |-> "beta"],
   [data |-> [title |-> "Gamma", tags |-> <<TagC, TagAb, TagUpperB>>],
    content |-> "gamma"],
   [data |-> [title |-> "Delta", date |-> DateFeb01, tags |-> <<TagD, TagA>>,
              featured |-> TRUE, draft |-> TRUE],
    content |-> "delta"]}

ListingTrees ==
  {[posts |-> [exists |-> TRUE, files |-> standalone],
    modules |-> [exists |-> TRUE,
                 entries |-> <<ModuleDir("m",
                                 <<MetadataFile([title |-> "M"])>> \o members)>>]] :
     standalone \in Listings(ListingPostNames, ListingDocs, MaxListingFiles),
     members \in Listings(ListingModuleNames, ListingDocs, MaxListingFiles)}

\* Enough featured posts for the limit of the featured listing to cut:
\* the first two files in module "m", the others standalone.
FeaturedFiles == 5

FeaturedNames == <<"p1", "p2", "p3", "p4", "p5", "p6">>

FeaturedDocs ==
  {[data |-> [title |-> "Pick", date |-> DateJan05, featured |-> TRUE],
    content |-> "pick"],
   [data |-> [title |-> "Top", date |-> DateFeb01, featured |-> TRUE],
    content |-> "top"],
   [data |-> [title |-> "Plain", date |-> DateJan10, featured |-> FALSE],
    content |-> "plain"],
   [data |-> [title |-> "Hidden", date |-> DateFeb01, featured |-> TRUE,
              draft |-> TRUE],
    content |-> "hidden"]}

FeaturedTrees ==
  {[posts |-> [exists |-> TRUE,
               files |-> [i \in 1..(FeaturedFiles - 2) |->
                            MkFile(<<FeaturedNames[i + 2], "md">>, docs[i + 2])]],
    modules |-> [exists |-> TRUE,
                 entries |-> <<ModuleDir("m",
                                 <<MetadataFile([title |-> "M"]),
                                   MkFile(<<FeaturedNames[1], "md">>, docs[1]),
                                   MkFile(<<FeaturedNames[2], "mdx">>, docs[2])>>)>>]] :
     docs \in [1..FeaturedFiles -> FeaturedDocs]}

\* The modules root itself: missing, or holding up to MaxCatalogEntries
\* entries in every scan order: the directories "m" and "n", with or
\* without a metadata.md, under several order declarations, and a plain
\* file.  The member a.mdx declares a slug of its own in its frontmatter,
\* and a module; the standalone a.md declares a module too.
MaxCatalogEntries == 2

CatalogMetadata ==
  {[title |-> "T"],
   [title |-> "T", order |-> 0],
   [title |-> "T", order |-> 1, description |-> "about"],
   [title |-> "T", order |-> 2]}

CatalogGuide ==
  MkFile(<<"a", "md">>,
         [data |-> [title |-> "Guide", date |-> DateJan05], content |-> "guide"])

CatalogNotes ==
  MkFile(<<"a", "mdx">>,
         [data |-> [title |-> "Notes", date |-> DateFeb01, slug |-> "custom",
                    module |-> "m"],
          content |-> "notes"])

CatalogSolo ==
  MkFile(<<"a", "md">>,
         [data |-> [title |-> "Solo", date |-> DateJan10, module |-> "m",
                    description |-> "solo post", category |-> "misc"],
          content |-> "solo"])

CatalogMembers ==
  {<<>>, <<CatalogGuide>>, <<CatalogNotes>>, <<CatalogNotes, CatalogGuide>>}

PlainFile(name) == [name |-> name, isDir |-> FALSE, files |-> <<>>]

CatalogEntries ==
  {ModuleDir(name, members) : name \in {"m", "n"}, members \in CatalogMembers}
    \cup {ModuleDir(name, <<MetadataFile(meta)>> \o members) :
            name \in {"m", "n"}, meta \in CatalogMetadata,
            members \in CatalogMembers}
    \cup {PlainFile("notes.md")}

DistinctEntryNames(entries) ==
  \A i, j \in 1..Len(entries) : entries[i].name = entries[j].name => i = j

CatalogRoots ==
  {[exists |-> FALSE, entries |-> <<>>]}
    \cup {[exists |-> TRUE, entries |-> entries] :
            entries \in UNION {{l \in [1..k -> CatalogEntries] :
                                  DistinctEntryNames(l)} :
                               k \in 0..MaxCatalogEntries}}

CatalogTrees ==
  {[posts |-> posts, modules |-> root] :
     posts \in {NoPostsDir, [exists |-> TRUE, files |-> <<CatalogSolo>>]},
     root \in CatalogRoots}

Trees == OrderingTrees \cup ListingTrees \cup FeaturedTrees \cup CatalogTrees

-----------------------------------------------------------------------------
(* The read operations                                                     *)

SlugArgs == {"a", "b", "c", "metadata", "p1", "p3"}

ModuleArgs == {"m", "n", "none"}

Values(seq) == {seq[i] : i \in 1..Len(seq)}

\* The library is synchronous and single-threaded: a call starts when no
\* other is running, and runs to its return.
Idle == [op |-> "none", arg |-> <<>>]

Init ==
  /\ \E tree \in Trees :
       /\ postsDir = tree.posts
       /\ modulesDir = tree.modules
  /\ call = Idle
  /\ ret = <<>>
  /\ held = Null
  /\ pending = Null

\* The caller takes the result; the next call may start.  The post page
\* keeps the post it looked up (const post) for its later calls.
Consume ==
  /\ call # Idle
  /\ call' = Idle
  /\ ret' = <<>>
  /\ UNCHANGED <<postsDir, modulesDir, held, pending>>

\* const post = getPostBySlug(params.slug): the page holds the post, or
\* ends in notFound() and holds none; no other result is passed on.
Hold(op, value) == IF op = "getPostBySlug" THEN value ELSE held

Return(op, arg, value) ==
  /\ call = Idle
  /\ pending = Null
  /\ call' = [op |-> op, arg |-> arg]
  /\ ret' = value
  /\ held' = Hold(op, value)
  /\ UNCHANGED <<postsDir, modulesDir, pending>>

GetAllPosts == Return("getAllPosts", <<>>, getAllPosts)

GetPostBySlug == \E slug \in SlugArgs :
  Return("getPostBySlug", <<slug>>, getPostBySlug(slug))

GetFeaturedPosts == Return("getFeaturedPosts", <<>>, getFeaturedPosts)

GetAllTags == Return("getAllTags", <<>>, getAllTags)

GetAllModules == Return("getAllModules", <<>>, getAllModules)

GetModuleBySlug == \E slug \in ModuleArgs :
  Return("getModuleBySlug", <<slug>>, getModuleBySlug(slug))

GetPostsByModule == \E slug \in ModuleArgs :
  Return("getPostsByModule", <<slug>>, getPostsByModule(slug))

GetAllPostsFromModules ==
  Return("getAllPostsFromModules", <<>>, getAllPostsFromModules)

GetModulePostBySlug == \E slug \in SlugArgs :
  Return("getModulePostBySlug", <<slug>>, getModulePostBySlug(slug))

\* The post a caller holds when it asks for navigation: the post the
\* page's slug resolved to, through the calls the page makes after the
\* lookup (getModuleBySlug, getModuleProgress, getNextPostInModule,
\* getPreviousPostInModule).
HeldPosts == Values(held)

Navigate(op, post, value) ==
  /\ call = Idle
  /\ pending = Null
  /\ call' = [op |-> op, arg |-> <<post>>]
  /\ ret' = value
  /\ UNCHANGED <<postsDir, modulesDir, held, pending>>

GetNextPostInModule == \E post \in HeldPosts :
  Navigate("getNextPostInModule", post, getNextPostInModule(post))

GetPreviousPostInModule == \E post \in HeldPosts :
  Navigate("getPreviousPostInModule", post, getPreviousPostInModule(post))

GetModuleProgress == \E post \in HeldPosts :
  Navigate("getModuleProgress", post, getModuleProgress(post))

Next ==
  \/ GetAllPosts
  \/ GetPostBySlug
  \/ GetFeaturedPosts
  \/ GetAllTags
  \/ GetAllModules
  \/ GetModuleBySlug
  \/ GetPostsByModule
  \/ GetAllPostsFromModules
  \/ GetModulePostBySlug
  \/ GetNextPostInModule
  \/ GetPreviousPostInModule
  \/ GetModuleProgress
  \/ Consume

Spec == Init /\ [][Next]_vars

-----------------------------------------------------------------------------
(* The library beside an author who edits the content: files are added to, *)
(* and removed from, content/posts and the module directory m, draft flags *)
(* are flipped, the postOrder of m is edited, and a scan of m may return   *)
(* its files in another order.  The library takes no lock: a call is a     *)
(* sequence of existsSync / readdirSync / readFileSync calls, each seeing  *)
(* the content as it is at that moment, and the author may edit between    *)
(* any two of them.  pending is the running call: what it has read so far  *)
(* and the file-system calls it has left.                                  *)

MaxChangingFiles == 2

ChangingNames(dir) ==
  IF dir = "posts" THEN {<<"b", "md">>} ELSE {<<"a", "md">>, <<"a", "mdx">>}

\* What the author writes into a new file: a.md and b.md are dated
\* 2024-01-05, a.mdx 2024-02-01.
ChangingDocs(name) ==
  IF name[2] = "md"
  THEN {[data |-> [title |-> "Early", date |-> DateJan05, draft |-> FALSE],
         content |-> "early"]}
  ELSE {[data |-> [title |-> "Late", date |-> DateFeb01, draft |-> FALSE],
         content |-> "late"]}

ChangingPostOrders == {<<>>, <<"a">>}

InitChanging ==
  /\ postsDir = [exists |-> TRUE, files |-> <<>>]
  /\ modulesDir =
       [exists |-> TRUE,
        entries |-> <<ModuleDir("m", <<MetadataFile([title |-> "M",
                                                     postOrder |-> <<>>])>>)>>]
  /\ call = Idle
  /\ ret = <<>>
  /\ held = Null
  /\ pending = Null

\* The markdown files of a directory other than the metadata.md, which
\* stays the first file of m.
DirFiles(dir) ==
  IF dir = "posts" THEN postsDir.files ELSE Tail(modulesDir.entries[1].files)

\* The running call, if there is one, no longer runs on unchanged content.
Touched ==
  IF pending = Null THEN Null ELSE Some([pending[1] EXCEPT !.clean = FALSE])

WriteDir(dir, files) ==
  /\ IF dir = "posts"
     THEN /\ postsDir' = [postsDir EXCEPT !.files = files]
          /\ UNCHANGED modulesDir
     ELSE /\ modulesDir' = [modulesDir EXCEPT
                              !.entries[1].files = <<Head(@)>> \o files]
          /\ UNCHANGED postsDir
  /\ pending' = Touched
  /\ UNCHANGED <<call, ret, held>>

AddFile == \E dir \in {"posts", "m"} :
  \E name \in ChangingNames(dir) : \E doc \in ChangingDocs(name) :
    /\ Len(DirFiles(dir)) < MaxChangingFiles
    /\ FileIndex(DirFiles(dir), name[1], name[2]) = 0
    /\ WriteDir(dir, Append(DirFiles(dir), MkFile(name, doc)))

RemoveFile == \E dir \in {"posts", "m"} :
  \E i \in 1..Len(DirFiles(dir)) :
    WriteDir(dir, SubSeq(DirFiles(dir), 1, i - 1)
                    \o SubSeq(DirFiles(dir), i + 1, Len(DirFiles(dir))))

FlipDraft == \E dir \in {"posts", "m"} :
  \E i \in 1..Len(DirFiles(dir)) :
    WriteDir(dir, [DirFiles(dir) EXCEPT ![i].data.draft = ~@])

EditPostOrder == \E postOrder \in ChangingPostOrders :
  /\ modulesDir.entries[1].files[1].data.postOrder # postOrder
  /\ modulesDir' = [modulesDir EXCEPT
                      !.entries[1].files[1].data.postOrder = postOrder]
  /\ pending' = Touched
  /\ UNCHANGED <<postsDir, call, ret, held>>

\* The next scan of m returns its two members in the other order.
Reorder ==
  /\ Len(DirFiles("m")) = 2
  /\ WriteDir("m", Reverse(DirFiles("m")))

\* The file-system calls of a function whose value depends on when they
\* are made, in the order the function makes them (the module m and its
\* metadata.md always exist here, so the existsSync tests of them and the
\* readdirSync of content/modules always succeed).
FsCalls(op, arg) ==
  CASE op \in {"getAllModules", "getModuleBySlug"} -> <<"readMetadata">>
    [] op = "getPostsByModule" -> <<"readMetadata", "scanModule">>
    [] op = "getAllPostsFromModules" ->
         <<"readMetadata", "readMetadata", "scanModule">>
    [] op \in {"getAllPosts", "getFeaturedPosts", "getAllTags"} ->
         <<"readMetadata", "readMetadata", "scanModule", "scanPosts">>
    [] op = "getModulePostBySlug" ->
         <<"readMetadata", "probeModuleMd", "probeModuleMdx">>
    [] op = "getPostBySlug" ->
         <<"readMetadata", "probeModuleMd", "probeModuleMdx",
           "probePostsMd", "probePostsMdx">>
    [] op \in {"getNextPostInModule", "getPreviousPostInModule",
               "getModuleProgress"} ->
         IF arg[1].module = Null THEN <<>>
         ELSE <<"readMetadata", "scanModule">>

\* A call starts when no other is running.
StartCall(op, arg) ==
  /\ call = Idle
  /\ pending = Null
  /\ pending' = Some([op |-> op, arg |-> arg, clean |-> TRUE,
                      pc |-> FsCalls(op, arg), meta |-> Null, names |-> <<>>,
                      moduleFiles |-> <<>>, postFiles |-> <<>>, found |-> Null])
  /\ UNCHANGED <<postsDir, modulesDir, call, ret, held>>

StartAllPosts == StartCall("getAllPosts", <<>>)

StartPostBySlug == \E slug \in {"a", "b"} : StartCall("getPostBySlug", <<slug>>)

StartFeaturedPosts == StartCall("getFeaturedPosts", <<>>)

StartAllTags == StartCall("getAllTags", <<>>)

StartAllModules == StartCall("getAllModules", <<>>)

StartModuleBySlug == StartCall("getModuleBySlug", <<"m">>)

StartPostsByModule == StartCall("getPostsByModule", <<"m">>)

StartAllPostsFromModules == StartCall("getAllPostsFromModules", <<>>)

StartModulePostBySlug == \E slug \in {"a", "b"} :
  StartCall("getModulePostBySlug", <<slug>>)

StartNextPostInModule == \E post \in HeldPosts :
  StartCall("getNextPostInModule", <<post>>)

StartPreviousPostInModule == \E post \in HeldPosts :
  StartCall("getPreviousPostInModule", <<post>>)

StartModuleProgress == \E post \in HeldPosts :
  StartCall("getModuleProgress", <<post>>)

\* The running call has this file-system call next.
At(steps) == pending # Null /\ pending[1].pc # <<>> /\ Head(pending[1].pc) \in steps

Continue(next) ==
  /\ pending' = Some(next)
  /\ UNCHANGED <<postsDir, modulesDir, call, ret, held>>

\* readFileSync of a path that is gone: ENOENT, which no function catches.
Thrown == <<[error |-> "ENOENT"]>>

Throw ==
  /\ call' = [op |-> pending[1].op, arg |-> pending[1].arg]
  /\ ret' = Thrown
  /\ held' = Hold(pending[1].op, Null)
  /\ pending' = Null
  /\ UNCHANGED <<postsDir, modulesDir>>

\* The descriptor as the module was first loaded, kept for later calls.
MetadataAsLoaded == MetadataFile([title |-> "M", postOrder |-> <<>>])

\* fs.readFileSync(metadataPath, 'utf8')
MetadataOnDisk == MetadataOf(modulesDir.entries[1])

ReadMetadata ==
  /\ At({"readMetadata"})
  /\ Continue([pending[1] EXCEPT !.meta = Some(MetadataOnDisk), !.pc = Tail(@)])

NamesOf(files) == [i \in 1..Len(files) |-> <<files[i].base, files[i].ext>>]

\* readdirSync and its filter: the names to read, one readFileSync each.
Scan(p, files, read) ==
  Continue([p EXCEPT !.names = NamesOf(files),
                     !.pc = [i \in 1..Len(files) |-> read] \o Tail(@)])

ScanModule ==
  /\ At({"scanModule"})
  /\ Scan(pending[1], SelectSeq(modulesDir.entries[1].files, IsMemberFile),
          "readModuleFile")

ScanPosts ==
  /\ At({"scanPosts"})
  /\ Scan(pending[1], SelectSeq(postsDir.files, IsMarkdown), "readPostsFile")

\* readFileSync of the next name of the listing, in the directory as it
\* is now.
ReadModuleFile ==
  /\ At({"readModuleFile"})
  /\ LET name == Head(pending[1].names)
         i == FileIndex(modulesDir.entries[1].files, name[1], name[2])
     IN IF i = 0 THEN Throw
        ELSE Continue([pending[1] EXCEPT
                         !.moduleFiles = Append(@, modulesDir.entries[1].files[i]),
                         !.names = Tail(@), !.pc = Tail(@)])

ReadPostsFile ==
  /\ At({"readPostsFile"})
  /\ LET name == Head(pending[1].names)
         i == FileIndex(postsDir.files, name[1], name[2])
     IN IF i = 0 THEN Throw
        ELSE Continue([pending[1] EXCEPT
                         !.postFiles = Append(@, postsDir.files[i]),
                         !.names = Tail(@), !.pc = Tail(@)])

\* existsSync of <slug>.<ext>: when it holds the file is read next, and
\* the remaining probes are never made.
Probe(p, files, ext, read) ==
  IF FileIndex(files, p.arg[1], ext) # 0
  THEN Continue([p EXCEPT !.names = <<<<p.arg[1], ext>>>>, !.pc = <<read>>])
  ELSE Continue([p EXCEPT !.pc = Tail(@)])

ProbeModule ==
  \/ /\ At({"probeModuleMd"})
     /\ Probe(pending[1], modulesDir.entries[1].files, "md", "readFoundInModule")
  \/ /\ At({"probeModuleMdx"})
     /\ Probe(pending[1], modulesDir.entries[1].files, "mdx", "readFoundInModule")

ProbePosts ==
  \/ /\ At({"probePostsMd"})
     /\ Probe(pending[1], postsDir.files, "md", "readFoundInPosts")
  \/ /\ At({"probePostsMdx"})
     /\ Probe(pending[1], postsDir.files, "mdx", "readFoundInPosts")

\* readFileSync of the file a probe found, and the post built from it.
ReadFound(p, files, module) ==
  LET i == FileIndex(files, p.names[1][1], p.names[1][2])
  IN IF i = 0 THEN Throw
     ELSE Continue([p EXCEPT
                      !.found = Some(PostFields(p.arg[1], files[i], module)),
                      !.names = <<>>, !.pc = <<>>])

ReadFoundInModule ==
  /\ At({"readFoundInModule"})
  /\ ReadFound(pending[1], modulesDir.entries[1].files, Some("m"))

ReadFoundInPosts ==
  /\ At({"readFoundInPosts"})
  /\ ReadFound(pending[1], postsDir.files, Null)

\* The posts of content/posts, from the files read.
StandaloneOfScan(files) ==
  SelectSeq([i \in 1..Len(files) |->
               PostFields(SlugOfFileName(files[i]), files[i], Null)],
            NotDraft)

\* The value a function returns, from what its file-system calls gave it.
ValueFromLists(p, modulePosts, allPosts) ==
  CASE p.op = "getAllPosts" -> allPosts
    [] p.op = "getFeaturedPosts" ->
         SliceFirst(SelectSeq(allPosts, IsFeatured), FeaturedLimit)
    [] p.op = "getAllTags" ->
         ArraySort(SetInsertionOrder(<<>>, TagsInOrder(allPosts)),
                   [kind |-> "default"])
    [] p.op \in {"getPostBySlug", "getModulePostBySlug"} -> p.found
    [] p.op = "getAllModules" -> <<ModuleRecord("m", p.meta[1])>>
    [] p.op = "getModuleBySlug" -> Some(ModuleRecord("m", p.meta[1]))
    [] p.op \in {"getPostsByModule", "getAllPostsFromModules"} -> modulePosts
    [] p.op = "getNextPostInModule" ->
         IF p.arg[1].module = Null THEN Null
         ELSE NextIn(modulePosts, p.arg[1].slug)
    [] p.op = "getPreviousPostInModule" ->
         IF p.arg[1].module = Null THEN Null
         ELSE PreviousIn(modulePosts, p.arg[1].slug)
    [] p.op = "getModuleProgress" ->
         IF p.arg[1].module = Null THEN Null
         ELSE ProgressIn(modulePosts, p.arg[1].slug)

ValueFromModule(p, modulePosts) ==
  ValueFromLists(p, modulePosts,
                 ArraySort(modulePosts \o StandaloneOfScan(p.postFiles),
                           [kind |-> "newestFirst"]))

ValueOfCall(p) ==
  ValueFromModule(p, IF p.meta = Null THEN <<>>
                     ELSE PostsOfScan(p.moduleFiles, ModuleRecord("m", p.meta[1])))

\* The function returns; the post page holds the post it looked up.
Finish(p, value) ==
  /\ call' = [op |-> p.op, arg |-> p.arg]
  /\ ret' = value
  /\ held' = Hold(p.op, value)
  /\ pending' = Null
  /\ UNCHANGED <<postsDir, modulesDir>>

FinishCall ==
  /\ pending # Null
  /\ pending[1].pc = <<>>
  /\ Finish(pending[1], ValueOfCall(pending[1]))

NextChanging ==
  \/ AddFile
  \/ RemoveFile
  \/ FlipDraft
  \/ EditPostOrder
  \/ Reorder
  \/ StartAllPosts
  \/ StartPostBySlug
  \/ StartFeaturedPosts
  \/ StartAllTags
  \/ StartAllModules
  \/ StartModuleBySlug
  \/ StartPostsByModule
  \/ StartAllPostsFromModules
  \/ StartModulePostBySlug
  \/ StartNextPostInModule
  \/ StartPreviousPostInModule
  \/ StartModuleProgress
  \/ ReadMetadata
  \/ ScanModule
  \/ ReadModuleFile
  \/ ScanPosts
  \/ ReadPostsFile
  \/ ProbeModule
  \/ ProbePosts
  \/ ReadFoundInModule
  \/ ReadFoundInPosts
  \/ FinishCall
  \/ Consume

SpecChanging == InitChanging /\ [][NextChanging]_vars

-----------------------------------------------------------------------------
(* What the tree holds, read off the files without the listing code        *)

FrontmatterDraft(file) == Has(file.data, "draft") /\ file.data.draft

StandaloneFiles ==
  IF postsDir.exists
  THEN {f \in Values(postsDir.files) : IsMarkdown(f)}
  ELSE {}

\* The directories of content/modules that hold a metadata.md.
ModuleEntries ==
  IF modulesDir.exists
  THEN {e \in Values(modulesDir.entries) :
          e.isDir /\ \E f \in Values(e.files) : IsMetadataFile(f)}
  ELSE {}

MemberFiles(entry) ==
  {f \in Values(entry.files) : IsMarkdown(f) /\ ~IsMetadataFile(f)}

\* The records of the files with draft: true, and of the others.
DraftRecords ==
  {PostFields(f.base, f, Null) : f \in {g \in StandaloneFiles : FrontmatterDraft(g)}}
    \cup UNION {{PostFields(f.base, f, Some(e.name)) :
                   f \in {g \in MemberFiles(e) : FrontmatterDraft(g)}} :
                e \in ModuleEntries}

PublishedRecords ==
  {PostFields(f.base, f, Null) : f \in {g \in StandaloneFiles : ~FrontmatterDraft(g)}}
    \cup UNION {{PostFields(f.base, f, Some(e.name)) :
                   f \in {g \in MemberFiles(e) : ~FrontmatterDraft(g)}} :
                e \in ModuleEntries}

ListingOps ==
  {"getAllPosts", "getPostsByModule", "getFeaturedPosts",
   "getAllPostsFromModules", "getNextPostInModule", "getPreviousPostInModule"}

-----------------------------------------------------------------------------
(* Claims                                                                  *)

\* C1 (draft exclusion): no record of a file with draft: true is in the
\* result of getAllPosts, getPostsByModule, getFeaturedPosts,
\* getAllPostsFromModules, getNextPostInModule or getPreviousPostInModule,
\* and every tag getAllTags returns is carried by a file that is not a draft.
DraftExclusion ==
  /\ call.op \in ListingOps =>
       \A r \in Values(ret) : ~r.draft /\ r \notin DraftRecords
  /\ call.op = "getAllTags" =>
       \A tag \in Values(ret) : \E r \in PublishedRecords : tag \in Values(r.tags)

\* C1 witness: the listing of a tree that holds a draft in the posts
\* directory and a draft in a module, beside posts that are listed.
DraftExclusionWitness ==
  /\ call.op = "getAllPosts"
  /\ Len(ret) >= 2
  /\ \E r \in DraftRecords : r.module = Null
  /\ \E r \in DraftRecords : r.module # Null

\* C2 (global sort order): in the result of getAllPosts no post is followed
\* by one with a greater date, under string comparison.
GlobalSortOrder ==
  call.op = "getAllPosts" =>
    \A i \in 1..(Len(ret) - 1) : ~StrLess(ret[i].date, ret[i + 1].date)

\* C2 witness: a listing that mixes module and standalone posts, two of
\* them with the same date and one without a date.
GlobalSortOrderWitness ==
  /\ call.op = "getAllPosts"
  /\ \E i, j, k \in 1..Len(ret) :
       /\ i # j
       /\ ret[i].date = ret[j].date /\ ret[i].date # <<>>
       /\ ret[i].module # Null /\ ret[j].module = Null
       /\ ret[k].date = <<>>

\* Adjacent posts of a list in ascending date order (string comparison).
AscendingDates(list) ==
  \A i \in 1..(Len(list) - 1) : ~StrLess(list[i + 1].date, list[i].date)

\* The postOrder of the module a getPostsByModule call names.
PostOrderOf(moduleSlug) ==
  IF getModuleBySlug(moduleSlug) = Null THEN <<>>
  ELSE getModuleBySlug(moduleSlug)[1].postOrder

InOrder(postOrder, post) == \E k \in 1..Len(postOrder) : postOrder[k] = post.slug

\* First position of a slug in a postOrder that names it.
Position(postOrder, post) ==
  CHOOSE k \in 1..Len(postOrder) :
    postOrder[k] = post.slug /\ \A h \in 1..(k - 1) : postOrder[h] # post.slug

\* C3 (module-default sort order), as claimed: without a postOrder, the
\* result of getPostsByModule is in ascending date order, posts without a
\* date included.
ModuleDefaultSortOrder ==
  (call.op = "getPostsByModule" /\ PostOrderOf(call.arg[1]) = <<>>) =>
    AscendingDates(ret)

\* C4 (explicit order precedence): with a postOrder, two listed posts whose
\* slugs it names at different positions appear in the order of those
\* positions, whatever their dates.
ExplicitOrderPrecedence ==
  call.op = "getPostsByModule" =>
    LET postOrder == PostOrderOf(call.arg[1])
    IN \A i, j \in 1..Len(ret) :
         (/\ InOrder(postOrder, ret[i]) /\ InOrder(postOrder, ret[j])
          /\ Position(postOrder, ret[i]) < Position(postOrder, ret[j]))
           => i < j

\* C4 witness: postOrder names b before a, a is older than b, and the list
\* is [b, a].
ExplicitOrderPrecedenceWitness ==
  /\ call.op = "getPostsByModule"
  /\ PostOrderOf(call.arg[1]) = <<"b", "zz", "b", "a">>
  /\ Len(ret) = 2
  /\ ret[1].slug = "b" /\ ret[2].slug = "a"
  /\ ret[2].date = DateJan05 /\ ret[1].date = DateFeb01

\* C5 (partial order precedence), as claimed: with a postOrder, the listed
\* posts it names come before those it does not name, and those it does not
\* name are in ascending date order.
PartialOrderPrecedence ==
  (call.op = "getPostsByModule" /\ PostOrderOf(call.arg[1]) # <<>>) =>
    LET postOrder == PostOrderOf(call.arg[1])
        Unordered(post) == ~InOrder(postOrder, post)
    IN /\ \A i, j \in 1..Len(ret) :
            (InOrder(postOrder, ret[i]) /\ ~InOrder(postOrder, ret[j])) => i < j
       /\ AscendingDates(SelectSeq(ret, Unordered))

\* C6 (navigation boundaries), as claimed: for every post of a module list,
\* the previous post is null for the first and the element before it
\* otherwise, the next post is null for the last and the element after it
\* otherwise.
NavigationBoundaries ==
  call.op = "getPostsByModule" =>
    \A i \in 1..Len(ret) :
      /\ getPreviousPostInModule(ret[i])
           = IF i = 1 THEN Null ELSE Some(ret[i - 1])
      /\ getNextPostInModule(ret[i])
           = IF i = Len(ret) THEN Null ELSE Some(ret[i + 1])

\* C7 (progress consistency), as claimed: for a module list of N posts the
\* progress of its i-th post is {current: i, total: N}.
ProgressConsistency ==
  call.op = "getPostsByModule" =>
    \A i \in 1..Len(ret) :
      getModuleProgress(ret[i]) = Some([current |-> i, total |-> Len(ret)])

\* C8 (round-trip slug lookup), as claimed: every post of getAllPosts is
\* found by getPostBySlug under its slug, with the same title, date and
\* content.
RoundTripSlugLookup ==
  call.op = "getAllPosts" =>
    \A i \in 1..Len(ret) :
      LET found == getPostBySlug(ret[i].slug)
      IN /\ found # Null
         /\ found[1].title = ret[i].title
         /\ found[1].date = ret[i].date
         /\ found[1].content = ret[i].content

\* A string with its upper-case letters A..Z turned into lower case.
FoldCase(str) ==
  [i \in 1..Len(str) |-> IF str[i] >= 65 /\ str[i] <= 90 THEN str[i] + 32
                         ELSE str[i]]

\* Alphabetical order: the order of a dictionary, which takes no account
\* of the case of a letter.
AlphabeticalLess(a, b) == StrLess(FoldCase(a), FoldCase(b))

\* C9 (tag dedup and order), as claimed: the tags getAllTags returns are
\* in ascending alphabetical order.
TagAlphabeticalOrder ==
  call.op = "getAllTags" =>
    \A i \in 1..(Len(ret) - 1) : ~AlphabeticalLess(ret[i + 1], ret[i])

\* C9 (tag dedup and order), amended: getAllTags returns the tags of the
\* files that are listed (no tag that only drafts carry), each once, in
\* ascending order of their UTF-16 code units, the order of the default
\* sort: a tag that starts with an upper-case letter comes before every
\* tag that starts with a lower-case one, and the order is alphabetical
\* only among tags of one case.
TagDedupAndOrder ==
  call.op = "getAllTags" =>
    /\ Values(ret) = UNION {Values(r.tags) : r \in Values(getAllPosts)}
    /\ Values(ret) = UNION {Values(r.tags) : r \in PublishedRecords}
    /\ \A i \in 1..(Len(ret) - 1) : StrLess(ret[i], ret[i + 1])

\* C9 witness: posts tagged [b, a] and [c, ab, B] beside a draft tagged
\* [d, a] give [B, a, ab, b, c].
TagDedupAndOrderWitness ==
  /\ call.op = "getAllTags"
  /\ ret = <<TagUpperB, TagA, TagAb, TagB, TagC>>
  /\ \E r \in PublishedRecords : r.tags = <<TagB, TagA>>
  /\ \E r \in PublishedRecords : r.tags = <<TagC, TagAb, TagUpperB>>
  /\ \E r \in DraftRecords : TagD \in Values(r.tags)

\* Position in a list of its n-th featured post, and their number.
FeaturedIndex(list, n) ==
  CHOOSE i \in 1..Len(list) :
    /\ list[i].featured
    /\ Cardinality({h \in 1..i : list[h].featured}) = n

FeaturedCount(list) == Cardinality({h \in 1..Len(list) : list[h].featured})

\* C10 (featured posts): getFeaturedPosts returns min(3, k) posts, all of
\* them featured: the first ones among the k featured posts of getAllPosts,
\* in the order of getAllPosts.
FeaturedFirstThree ==
  call.op = "getFeaturedPosts" =>
    LET all == getAllPosts
        k == FeaturedCount(all)
    IN /\ Len(ret) <= 3
       /\ Len(ret) = (IF k < 3 THEN k ELSE 3)
       /\ \A n \in 1..Len(ret) :
            ret[n].featured /\ ret[n] = all[FeaturedIndex(all, n)]

\* C10 witness: four featured posts are listed, a post that is not featured
\* is listed before the third of them, and three are returned.
FeaturedFirstThreeWitness ==
  /\ call.op = "getFeaturedPosts"
  /\ Len(ret) = 3
  /\ FeaturedCount(getAllPosts) >= 4
  /\ FeaturedIndex(getAllPosts, 3) > 3

\* A directory listing holds <slug>.md or <slug>.mdx.
HoldsSlug(files, slug) ==
  \E f \in Values(files) : f.base = slug /\ IsMarkdown(f)

StandaloneHolds(slug) == postsDir.exists /\ HoldsSlug(postsDir.files, slug)

\* The modules, directories with a metadata.md, that hold the slug.
ModulesHolding(slug) == {e \in ModuleEntries : HoldsSlug(e.files, slug)}

\* C11 (lookup precedence): when a module holds a file of the slug,
\* getPostBySlug returns a module post, whether or not the posts directory
\* holds the slug too; a standalone post is returned only when the
\* cross-module lookup finds nothing.
LookupPrecedence ==
  call.op = "getPostBySlug" =>
    /\ ModulesHolding(call.arg[1]) # {} =>
         (ret # Null /\ ret[1].module # Null
            /\ ret[1].module[1] \in {e.name : e \in ModulesHolding(call.arg[1])})
    /\ (ret # Null /\ ret[1].module = Null) =>
         (ModulesHolding(call.arg[1]) = {} /\ getModulePostBySlug(call.arg[1]) = Null)

\* C11 witness: the posts directory and module "m" both hold a file of the
\* slug, with different titles, and the module post is returned.
LookupPrecedenceWitness ==
  /\ call.op = "getPostBySlug"
  /\ StandaloneHolds(call.arg[1])
  /\ ModulesHolding(call.arg[1]) # {}
  /\ ret # Null /\ ret[1].module = Some("m")
  /\ StandalonePost(call.arg[1])[1].title # ret[1].title

-----------------------------------------------------------------------------
(* File system reads.  existsSync answers for any path; readdirSync and    *)
(* readFileSync throw on a path the tree does not hold.  A path is         *)
(* <<"posts">>, <<"posts", base, ext>>, <<"modules">>, <<"modules", dir>>  *)
(* or <<"modules", dir, base, ext>>; each function below is the set of     *)
(* paths the function of that name reads.                                  *)

Readable(path) ==
  IF path[1] = "posts"
  THEN /\ postsDir.exists
       /\ Len(path) > 1 => FileIndex(postsDir.files, path[2], path[3]) # 0
  ELSE /\ modulesDir.exists
       /\ Len(path) > 1 => ModuleEntryIndex(path[2]) # 0
       /\ Len(path) > 2 =>
            FileIndex(modulesDir.entries[ModuleEntryIndex(path[2])].files,
                      path[3], path[4]) # 0

\* getAllModules without its existsSync test of content/modules.
getAllModulesReadsUnguarded ==
  {<<"modules">>}
    \cup {<<"modules", e.name, "metadata", "md">> : e \in ModuleEntries}

getAllModulesReads ==
  IF ~modulesDir.exists THEN {}
  ELSE {<<"modules">>}
         \cup {<<"modules", e.name, "metadata", "md">> : e \in ModuleEntries}

getModuleBySlugReads(slug) ==
  IF getModuleBySlug(slug) = Null THEN {}
  ELSE {<<"modules", slug, "metadata", "md">>}

getPostsByModuleReads(moduleSlug) ==
  getModuleBySlugReads(moduleSlug)
    \cup (IF getModuleBySlug(moduleSlug) = Null THEN {}
          ELSE {<<"modules", moduleSlug>>}
                 \cup {<<"modules", moduleSlug, f.base, f.ext>> :
                         f \in Values(ModuleFiles(moduleSlug))})

getAllPostsFromModulesReads ==
  getAllModulesReads
    \cup UNION {getPostsByModuleReads(module.slug) :
                module \in Values(getAllModules)}

\* The extension of the first of <slug>.md, <slug>.mdx a listing holds.
FirstExtension(files, slug) ==
  IF FileIndex(files, slug, "md") # 0 THEN "md" ELSE "mdx"

getModulePostBySlugReads(slug) ==
  getAllModulesReads
    \cup (IF getModulePostBySlug(slug) = Null THEN {}
          ELSE {<<"modules", getModulePostBySlug(slug)[1].module[1], slug,
                  FirstExtension(
                    modulesDir.entries[
                      ModuleEntryIndex(getModulePostBySlug(slug)[1].module[1])].files,
                    slug)>>})

\* A navigation that, without the test of currentPost.module, searches the
\* posts of every module for the post.
NavigationReadsAllModules(currentPost) ==
  IF currentPost.module = Null THEN getAllPostsFromModulesReads
  ELSE getPostsByModuleReads(currentPost.module[1])

NavigationReads(currentPost) ==
  IF currentPost.module = Null THEN {}
  ELSE getPostsByModuleReads(currentPost.module[1])

getStandaloneReads ==
  IF ~postsDir.exists THEN {}
  ELSE {<<"posts">>} \cup {<<"posts", f.base, f.ext>> : f \in StandaloneFiles}

getAllPostsReads == getAllPostsFromModulesReads \cup getStandaloneReads

getPostBySlugReads(slug) ==
  getModulePostBySlugReads(slug)
    \cup (IF getModulePostBySlug(slug) # Null \/ StandalonePost(slug) = Null
          THEN {}
          ELSE {<<"posts", slug, FirstExtension(postsDir.files, slug)>>})

\* The reads of a call.
ReadsOf(c) ==
  CASE c.op = "getAllPosts" -> getAllPostsReads
    [] c.op = "getFeaturedPosts" -> getAllPostsReads
    [] c.op = "getAllTags" -> getAllPostsReads
    [] c.op = "getPostBySlug" -> getPostBySlugReads(c.arg[1])
    [] c.op = "getAllModules" -> getAllModulesReads
    [] c.op = "getModuleBySlug" -> getModuleBySlugReads(c.arg[1])
    [] c.op = "getPostsByModule" -> getPostsByModuleReads(c.arg[1])
    [] c.op = "getAllPostsFromModules" -> getAllPostsFromModulesReads
    [] c.op = "getModulePostBySlug" -> getModulePostBySlugReads(c.arg[1])
    [] c.op \in {"getNextPostInModule", "getPreviousPostInModule",
                 "getModuleProgress"} -> NavigationReads(c.arg[1])
    [] OTHER -> {}

\* A post a caller kept from a module that the tree may not hold.
StrayPost(moduleSlug) == PostFields("a", CatalogGuide, Some(moduleSlug))

ModuleNames == {e.name : e \in ModuleEntries}

\* The records of the published member files of the modules.
PublishedModuleRecords == {r \in PublishedRecords : r.module # Null}

\* C12 (absence as empty): no call reads a path the tree does not hold (no
\* thrown error); without content/modules getAllModules is empty; for a
\* name that is no module (no directory, or one without metadata.md)
\* getModuleBySlug is null, getPostsByModule is empty and the navigation of
\* a post said to be of it is null; for a slug no module and no posts file
\* holds getPostBySlug is null; without content/posts getAllPosts still
\* lists the module posts.
AbsenceAsEmpty ==
  /\ \A path \in ReadsOf(call) : Readable(path)
  /\ (call.op = "getAllModules" /\ ~modulesDir.exists) => ret = <<>>
  /\ (call.op = "getModuleBySlug" /\ call.arg[1] \notin ModuleNames) => ret = Null
  /\ (call.op = "getPostsByModule" /\ call.arg[1] \notin ModuleNames) => ret = <<>>
  /\ (call.op = "getAllPostsFromModules" /\ ModuleNames = {}) => ret = <<>>
  /\ (/\ call.op = "getPostBySlug"
      /\ ModulesHolding(call.arg[1]) = {}
      /\ ~StandaloneHolds(call.arg[1])) => ret = Null
  /\ (call.op = "getAllPosts" /\ ~postsDir.exists) =>
       Values(ret) = PublishedModuleRecords
  /\ \A name \in ModuleArgs \ ModuleNames :
       /\ \A path \in NavigationReads(StrayPost(name)) : Readable(path)
       /\ getNextPostInModule(StrayPost(name)) = Null
       /\ getPreviousPostInModule(StrayPost(name)) = Null
       /\ getModuleProgress(StrayPost(name)) = Null

\* C12 witness: content/posts is missing, a directory of content/modules
\* has no metadata.md, and getAllPosts has listed the posts of a module.
AbsenceAsEmptyWitness ==
  /\ call.op = "getAllPosts"
  /\ ~postsDir.exists
  /\ \E e \in Values(modulesDir.entries) : e.isDir /\ e.name \notin ModuleNames
  /\ Len(ret) >= 1

\* The metadata.md frontmatter of a module directory.
MetadataData(name) ==
  (CHOOSE f \in Values((CHOOSE e \in ModuleEntries : e.name = name).files) :
     IsMetadataFile(f)).data

\* The order a descriptor declares, 0 included; 999 when it declares none.
DeclaredOrder(name) ==
  IF Has(MetadataData(name), "order") THEN MetadataData(name).order
  ELSE DefaultOrder

\* C13 (module list order), as claimed: every module of getAllModules
\* carries the order its descriptor declares (0 included, 999 when absent)
\* and the list is in ascending order of it.
ModuleListOrder ==
  call.op = "getAllModules" =>
    /\ \A i \in 1..Len(ret) : ret[i].order = DeclaredOrder(ret[i].slug)
    /\ \A i \in 1..(Len(ret) - 1) :
         DeclaredOrder(ret[i].slug) <= DeclaredOrder(ret[i + 1].slug)

\* The directories of content/modules without a metadata.md.
HiddenNames ==
  {e.name : e \in {d \in Values(modulesDir.entries) :
                     d.isDir /\ d.name \notin ModuleNames}}

\* C14 (directories without metadata.md are invisible): such a directory
\* is no module of getAllModules, getModuleBySlug of its name is null,
\* getPostsByModule of its name is empty, no post of a listing is of it,
\* and no lookup by slug returns a post of it.
HiddenDirectories ==
  \A name \in HiddenNames :
    /\ call.op = "getAllModules" => \A i \in 1..Len(ret) : ret[i].slug # name
    /\ (call.op = "getModuleBySlug" /\ call.arg[1] = name) => ret = Null
    /\ (call.op = "getPostsByModule" /\ call.arg[1] = name) => ret = <<>>
    /\ call.op \in {"getAllPosts", "getAllPostsFromModules", "getFeaturedPosts",
                     "getPostBySlug", "getModulePostBySlug"} =>
         \A i \in 1..Len(ret) : ret[i].module # Some(name)

\* C14 witness: the first directory of the scan has no metadata.md and
\* holds the slug, a later one is a module that holds it too, and
\* getPostBySlug returns the post of the module.
HiddenDirectoriesWitness ==
  /\ call.op = "getPostBySlug"
  /\ Len(modulesDir.entries) = 2
  /\ modulesDir.entries[1].name \in HiddenNames
  /\ HoldsSlug(modulesDir.entries[1].files, call.arg[1])
  /\ ret # Null
  /\ ret[1].module = Some(modulesDir.entries[2].name)

\* C15 (getModuleBySlug agrees with getAllModules): getModuleBySlug of a
\* name is non-null exactly when getAllModules lists a module of that
\* slug, and then returns the record the list holds (slug, title,
\* description, order and postOrder); every module the list holds is what
\* getModuleBySlug returns for its slug.
ModuleLookupAgreement ==
  /\ call.op = "getModuleBySlug" =>
       /\ ret # Null <=> \E module \in Values(getAllModules) :
                            module.slug = call.arg[1]
       /\ ret # Null => ret[1] \in Values(getAllModules)
  /\ call.op = "getAllModules" =>
       \A i \in 1..Len(ret) : getModuleBySlug(ret[i].slug) = Some(ret[i])

\* C15 witness: two modules are listed, and getModuleBySlug has returned
\* one that declares an order and a description.
ModuleLookupAgreementWitness ==
  /\ call.op = "getModuleBySlug"
  /\ Len(getAllModules) = 2
  /\ ret # Null
  /\ ret[1].order = 1
  /\ ret[1].description = Some("about")

\* The slug the frontmatter of a file declares, or else the one generated
\* from its name.
DeclaredSlug(file) ==
  IF Has(file.data, "slug") THEN file.data.slug ELSE SlugOfFileName(file)

\* The records of the markdown files of the tree, under their declared slugs.
DeclaredSlugRecords ==
  {PostFields(DeclaredSlug(f), f, Null) : f \in StandaloneFiles}
    \cup UNION {{PostFields(DeclaredSlug(f), f, Some(e.name)) :
                   f \in {g \in Values(e.files) : IsMarkdown(g)}} :
                e \in ModuleEntries}

\* C16 (frontmatter slug), as claimed: every post getAllPosts,
\* getPostsByModule or getPostBySlug returns carries the slug its
\* frontmatter declares, and the slug of its file name only when the
\* frontmatter declares none.
FrontmatterSlug ==
  call.op \in {"getAllPosts", "getPostsByModule", "getPostBySlug"} =>
    \A r \in Values(ret) : r \in DeclaredSlugRecords

\* The sequence getAllPosts sorts: the module posts, then the standalone ones.
Concatenation == getAllPostsFromModules \o getStandalonePosts

\* C17 (tie order), as claimed: the posts of getAllPosts that have the
\* same date are in the order the concatenated sequence has them, module
\* posts before standalone posts.
TieOrder ==
  call.op = "getAllPosts" =>
    \A d \in {ret[i].date : i \in 1..Len(ret)} :
      LET HasDate(post) == post.date = d
      IN SelectSeq(ret, HasDate) = SelectSeq(Concatenation, HasDate)

\* The directory of a module.
EntryOf(name) == CHOOSE e \in ModuleEntries : e.name = name

\* The file a probe of <slug>.md, then <slug>.mdx, finds in a listing that
\* holds the slug.
ProbedFile(files, slug) ==
  IF \E f \in Values(files) : f.base = slug /\ f.ext = "md"
  THEN CHOOSE f \in Values(files) : f.base = slug /\ f.ext = "md"
  ELSE CHOOSE f \in Values(files) : f.base = slug /\ f.ext = "mdx"

\* Positions in getAllModules of the modules that hold the slug.
HolderPositions(slug) ==
  {k \in 1..Len(getAllModules) :
     HoldsSlug(EntryOf(getAllModules[k].slug).files, slug)}

\* C18 (cross-module lookup): the lookup returns null when no module holds
\* the slug; otherwise the post of the first module, in getAllModules
\* order, that holds it, with that module's slug as its module field,
\* built from <slug>.md when the directory holds it and from <slug>.mdx
\* otherwise.
CrossModuleLookup ==
  call.op = "getModulePostBySlug" =>
    IF HolderPositions(call.arg[1]) = {} THEN ret = Null
    ELSE
      LET first == CHOOSE k \in HolderPositions(call.arg[1]) :
                     \A h \in HolderPositions(call.arg[1]) : k <= h
          name == getAllModules[first].slug
      IN /\ ret # Null
         /\ ret[1].module = Some(name)
         /\ ret[1] = PostFields(call.arg[1],
                                ProbedFile(EntryOf(name).files, call.arg[1]),
                                Some(name))

\* C18 witness: two modules hold the slug; the one that is first in
\* getAllModules order is second in scan order and holds a.mdx before
\* a.md; the lookup has returned its a.md.
CrossModuleLookupWitness ==
  /\ call.op = "getModulePostBySlug"
  /\ call.arg[1] = "a"
  /\ Len(getAllModules) = 2
  /\ getAllModules[1].slug = modulesDir.entries[2].name
  /\ HoldsSlug(modulesDir.entries[1].files, "a")
  /\ CatalogNotes \in Values(modulesDir.entries[2].files)
  /\ ret = Some(PostFields("a", CatalogGuide, Some(modulesDir.entries[2].name)))

\* The files <slug>.<ext> of content/posts (one at most).
StandaloneNamed(slug, ext) ==
  {f \in StandaloneFiles : f.base = slug /\ f.ext = ext}

\* C19 (direct fetch keeps drafts): when content/posts holds <slug>.md
\* with draft: true and no module holds the slug, getPostBySlug returns
\* the record of that file, with draft true, and getAllPosts does not
\* list it.
DirectFetchKeepsDrafts ==
  \A slug \in SlugArgs :
    \A f \in {g \in StandaloneNamed(slug, "md") : FrontmatterDraft(g)} :
      ModulesHolding(slug) = {} =>
        /\ (call.op = "getPostBySlug" /\ call.arg[1] = slug) =>
             /\ ret = Some(PostFields(slug, f, Null))
             /\ ret[1].draft
             /\ ret[1] \notin Values(getAllPosts)
        /\ call.op = "getAllPosts" => PostFields(slug, f, Null) \notin Values(ret)

\* C19 witness: getPostBySlug has returned a standalone draft while
\* getAllPosts lists another post.
DirectFetchKeepsDraftsWitness ==
  /\ call.op = "getPostBySlug"
  /\ ModulesHolding(call.arg[1]) = {}
  /\ ret # Null
  /\ ret[1].draft /\ ret[1].module = Null
  /\ Len(getAllPosts) >= 1

\* C20 (standalone lookup order): when no module holds the slug,
\* getPostBySlug returns the record of <slug>.md of content/posts when it
\* exists, else the record of <slug>.mdx when that exists, else null.
StandaloneLookupOrder ==
  (call.op = "getPostBySlug" /\ ModulesHolding(call.arg[1]) = {}) =>
    /\ \A f \in StandaloneNamed(call.arg[1], "md") :
         ret = Some(PostFields(call.arg[1], f, Null))
    /\ StandaloneNamed(call.arg[1], "md") = {} =>
         \A f \in StandaloneNamed(call.arg[1], "mdx") :
           ret = Some(PostFields(call.arg[1], f, Null))
    /\ (/\ StandaloneNamed(call.arg[1], "md") = {}
        /\ StandaloneNamed(call.arg[1], "mdx") = {}) => ret = Null

\* C20 witness: content/posts holds a.mdx before a.md in scan order, with
\* different titles, no module holds a, and the record of a.md is returned.
StandaloneLookupOrderWitness ==
  /\ call.op = "getPostBySlug"
  /\ call.arg[1] = "a"
  /\ ModulesHolding("a") = {}
  /\ Len(postsDir.files) = 2
  /\ postsDir.files[1].base = "a" /\ postsDir.files[1].ext = "mdx"
  /\ postsDir.files[2].base = "a" /\ postsDir.files[2].ext = "md"
  /\ postsDir.files[1].data.title # postsDir.files[2].data.title
  /\ ret = Some(PostFields("a", postsDir.files[2], Null))

\* The module a frontmatter declares, when it declares one.
FrontmatterModule(file) ==
  IF Has(file.data, "module") THEN Some(file.data.module) ELSE Null

\* The directory a returned post was loaded from: its file is one of the
\* markdown files of content/modules/<name>.
LoadedFromModule(post, name) ==
  /\ name \in ModuleNames
  /\ \E f \in {g \in Values(EntryOf(name).files) : IsMarkdown(g)} :
       /\ f.base = post.slug
       /\ f.content = post.content
       /\ f.data.title = post.title

LoadedFromPosts(post) ==
  \E f \in StandaloneFiles :
    f.base = post.slug /\ f.content = post.content /\ f.data.title = post.title

\* C21 (membership by placement): every post of getPostsByModule(m) has
\* module m; every post a listing or a lookup returns with module m was
\* loaded from the directory of m, and every one it returns without a
\* module was loaded from content/posts, whatever module the frontmatter
\* of its file declares; every published file of content/posts is listed
\* by getAllPosts without a module.
MembershipByPlacement ==
  /\ call.op = "getPostsByModule" =>
       \A i \in 1..Len(ret) : ret[i].module = Some(call.arg[1])
  /\ call.op \in {"getPostsByModule", "getAllPosts", "getAllPostsFromModules",
                   "getPostBySlug", "getModulePostBySlug"} =>
       \A i \in 1..Len(ret) :
         IF ret[i].module = Null THEN LoadedFromPosts(ret[i])
         ELSE LoadedFromModule(ret[i], ret[i].module[1])
  /\ call.op = "getAllPosts" =>
       \A f \in {g \in StandaloneFiles : ~FrontmatterDraft(g)} :
         PostFields(f.base, f, Null) \in Values(ret)

\* C21 witness: getAllPosts has listed, without a module, a standalone
\* post whose frontmatter declares module m, and, with module n, a post of
\* directory n whose frontmatter declares module m.
MembershipByPlacementWitness ==
  /\ call.op = "getAllPosts"
  /\ \E f \in StandaloneFiles :
       /\ FrontmatterModule(f) = Some("m")
       /\ PostFields(f.base, f, Null) \in Values(ret)
  /\ "n" \in ModuleNames
  /\ \E f \in MemberFiles(EntryOf("n")) :
       /\ FrontmatterModule(f) = Some("m")
       /\ PostFields(f.base, f, Some("n")) \in Values(ret)

NavigationOps ==
  {"getNextPostInModule", "getPreviousPostInModule", "getModuleProgress"}

\* C22 (navigation of a standalone post): for a post without a module,
\* getNextPostInModule, getPreviousPostInModule and getModuleProgress
\* return null and read no path.
StandaloneNavigation ==
  (call.op \in NavigationOps /\ call.arg[1].module = Null) =>
    (ret = Null /\ ReadsOf(call) = {})

\* C22 witness: the page of a standalone post has asked for the post
\* after it, beside a module with two posts or more, and got null.
StandaloneNavigationWitness ==
  /\ call.op = "getNextPostInModule"
  /\ call.arg = held
  /\ call.arg[1].module = Null
  /\ ret = Null
  /\ Len(getAllPostsFromModules) >= 2

\* The value each function returns on the tree as it is.
ResultOf(c) ==
  CASE c.op = "getAllPosts" -> getAllPosts
    [] c.op = "getFeaturedPosts" -> getFeaturedPosts
    [] c.op = "getAllTags" -> getAllTags
    [] c.op = "getPostBySlug" -> getPostBySlug(c.arg[1])
    [] c.op = "getAllModules" -> getAllModules
    [] c.op = "getModuleBySlug" -> getModuleBySlug(c.arg[1])
    [] c.op = "getPostsByModule" -> getPostsByModule(c.arg[1])
    [] c.op = "getAllPostsFromModules" -> getAllPostsFromModules
    [] c.op = "getModulePostBySlug" -> getModulePostBySlug(c.arg[1])
    [] c.op = "getNextPostInModule" -> getNextPostInModule(c.arg[1])
    [] c.op = "getPreviousPostInModule" -> getPreviousPostInModule(c.arg[1])
    [] c.op = "getModuleProgress" -> getModuleProgress(c.arg[1])

\* A result is the one the tree as it is gives to a call: it is the value
\* of the function on this tree, a listing holds the records of the files
\* that are published now, and the modules carry the postOrder their
\* metadata.md declares now.
FreshResult(c, result) ==
  /\ result = ResultOf(c)
  /\ c.op = "getAllPosts" => Values(result) = PublishedRecords
  /\ c.op = "getAllPostsFromModules" => Values(result) = PublishedModuleRecords
  /\ c.op = "getPostsByModule" =>
       Values(result) = {r \in PublishedRecords : r.module = Some(c.arg[1])}
  /\ c.op = "getAllModules" =>
       /\ {result[i].slug : i \in 1..Len(result)} = ModuleNames
       /\ \A i \in 1..Len(result) :
            result[i].postOrder = MetadataData(result[i].slug).postOrder

\* C23 (no cache): whatever changes of the content and whatever calls
\* came before, a call during which the content was not edited returns
\* the value of its function on the content as it is: nothing an earlier
\* call read, and nothing the content held before, enters the result.
NoCache ==
  [][(pending # Null /\ pending' = Null /\ pending[1].clean)
       => FreshResult(call', ret')]_vars

\* C23 witness: after files were added, a draft flag flipped and the
\* postOrder edited, getAllPosts was called and the content changed again:
\* the caller holds a listing that is no longer the one of the tree.
NoCacheWitness ==
  /\ call.op = "getAllPosts"
  /\ Len(ret) = 2
  /\ Values(ret) # PublishedRecords
  /\ DraftRecords # {}
  /\ PostOrderOf("m") = <<"a">>

\* The value a frontmatter declares for a key, or a default when it
\* declares none; for description and category, the value or its absence.
Declared(data, key, default) == IF Has(data, key) THEN data[key] ELSE default

Optional(data, key) == IF Has(data, key) THEN Some(data[key]) ELSE Null

\* The fields of a post, as the frontmatter of its file declares them.
DeclaredPost(post, file) ==
  /\ post.title = Declared(file.data, "title", "")
  /\ post.date = Declared(file.data, "date", <<>>)
  /\ post.tags = Declared(file.data, "tags", <<>>)
  /\ post.featured = Declared(file.data, "featured", FALSE)
  /\ post.draft = Declared(file.data, "draft", FALSE)
  /\ post.description = Optional(file.data, "description")
  /\ post.category = Optional(file.data, "category")
  /\ post.content = file.content

\* The fields of a module, as its metadata.md declares them.
DeclaredModule(module) ==
  /\ module.slug \in ModuleNames
  /\ module.title = Declared(MetadataData(module.slug), "title", "")
  /\ module.order = Declared(MetadataData(module.slug), "order", DefaultOrder)
  /\ module.postOrder = Declared(MetadataData(module.slug), "postOrder", <<>>)
  /\ module.description = Optional(MetadataData(module.slug), "description")

\* C24 (field defaults), as claimed: every post a listing or a lookup
\* returns carries, for each field, the value the frontmatter of its file
\* declares, and '' (title, date), [] (tags), false (featured, draft) or
\* nothing (description, category) when it declares none; every module
\* carries the declared title, order and postOrder, and '', 999 and []
\* when they are not declared.
FieldDefaults ==
  /\ call.op \in {"getAllPosts", "getPostsByModule", "getAllPostsFromModules",
                   "getPostBySlug", "getModulePostBySlug", "getFeaturedPosts"} =>
       \A i \in 1..Len(ret) :
         \E f \in (IF ret[i].module = Null THEN StandaloneFiles
                    ELSE {g \in Values(EntryOf(ret[i].module[1]).files) :
                            IsMarkdown(g)}) :
           f.base = ret[i].slug /\ DeclaredPost(ret[i], f)
  /\ call.op \in {"getAllModules", "getModuleBySlug"} =>
       \A i \in 1..Len(ret) : DeclaredModule(ret[i])

\* C25 (a module descriptor is never a post), as claimed: every non-null
\* result of the cross-module lookup, reached directly or through the
\* aggregator's getPostBySlug, is built from a member file of its module, a
\* markdown file other than metadata.md; the slug "metadata" does not
\* return a record built from a module's metadata.md.
MetadataNeverAPost ==
  (/\ call.op \in {"getModulePostBySlug", "getPostBySlug"}
   /\ ret # Null
   /\ ret[1].module # Null) =>
    ProbedFile(EntryOf(ret[1].module[1]).files, call.arg[1])
      \in MemberFiles(EntryOf(ret[1].module[1]))

\* C26 (distinct slugs in a module listing), as claimed: the slugs of the
\* posts one getPostsByModule call returns are pairwise distinct, also for
\* a directory that holds both x.md and x.mdx.
DistinctModuleSlugs ==
  call.op = "getPostsByModule" =>
    \A i, j \in 1..Len(ret) : i # j => ret[i].slug # ret[j].slug

\* Positions, in the directory listing of a module, of its member files
\* without draft: true.
PublishedMemberPositions(entry) ==
  {i \in 1..Len(entry.files) :
     entry.files[i] \in MemberFiles(entry) /\ ~FrontmatterDraft(entry.files[i])}

\* The list holds the posts of the files at the positions, each once.
IsPermutationOf(list, entry, positions) ==
  /\ Len(list) = Cardinality(positions)
  /\ \E p \in [1..Len(list) -> positions] :
       /\ \A i, j \in 1..Len(list) : i # j => p[i] # p[j]
       /\ \A i \in 1..Len(list) :
            list[i] = PostFields(entry.files[p[i]].base, entry.files[p[i]],
                                 Some(entry.name))

\* C27 (permutation of the non-draft members): getPostsByModule of a module
\* returns each non-draft markdown file other than metadata.md exactly once
\* and nothing else, whatever postOrder names: an entry that names a
\* missing or a draft slug, or repeats a slug, adds and removes nothing.
PermutationOfMembers ==
  (call.op = "getPostsByModule" /\ call.arg[1] \in ModuleNames) =>
    IsPermutationOf(ret, EntryOf(call.arg[1]),
                    PublishedMemberPositions(EntryOf(call.arg[1])))

\* A postOrder that repeats "b", names the missing "zz" and names a draft,
\* over a module with two published members.
PermutationOfMembersWitness ==
  /\ call.op = "getPostsByModule"
  /\ call.arg = <<"m">>
  /\ "m" \in ModuleNames
  /\ PostOrderOf("m") = <<"b", "zz", "b", "a">>
  /\ Len(ret) = 2
  /\ \E f \in MemberFiles(EntryOf("m")) :
       FrontmatterDraft(f) /\ f.base \in {"a", "b"}


\* The posts visited by following getNextPostInModule from a post, the post
\* included, for at most the given number of steps.
RECURSIVE WalkNext(_, _)
WalkNext(post, steps) ==
  IF steps = 0 THEN <<>>
  ELSE <<post>> \o (IF getNextPostInModule(post) = Null THEN <<>>
                    ELSE WalkNext(getNextPostInModule(post)[1], steps - 1))

\* The post before the one after it is the post itself, by slug.
PreviousOfNext(post, next) ==
  next # Null =>
    /\ getPreviousPostInModule(next[1]) # Null
    /\ getPreviousPostInModule(next[1])[1].slug = post.slug

\* C28 (next and previous are inverse), as claimed: for every post p of a
\* getPostsByModule result, when getNextPostInModule(p) is a post q then
\* getPreviousPostInModule(q) has p's slug; following getNextPostInModule
\* from the first post visits every post of the list once, in list order,
\* and then reaches null.
NextPreviousInverse ==
  (call.op = "getPostsByModule" /\ Len(ret) > 0) =>
    /\ \A i \in 1..Len(ret) : PreviousOfNext(ret[i], getNextPostInModule(ret[i]))
    /\ WalkNext(ret[1], Len(ret) + 1) = ret

\* The post is among the posts of the list.
ListedIn(list, post) == \E i \in 1..Len(list) : list[i] = post

\* C29 (a looked-up module post is a listed member), as claimed: every post
\* a lookup by slug returns with a module field occurs in getPostsByModule
\* of that module and has a module progress.
LookupResultIsListed ==
  (/\ call.op \in {"getModulePostBySlug", "getPostBySlug"}
   /\ ret # Null
   /\ ret[1].module # Null) =>
    /\ ListedIn(getPostsByModule(ret[1].module[1]), ret[1])
    /\ getModuleProgress(ret[1]) # Null

\* Every order in which a scan can return the files of a directory.
ScanOrders(files) ==
  {[i \in 1..Len(files) |-> files[p[i]]] :
     p \in {q \in [1..Len(files) -> 1..Len(files)] :
              \A i, j \in 1..Len(files) : q[i] = q[j] => i = j}}

ValidDate(file) == Has(file.data, "date") /\ ~DateGetTime(file.data.date).nan

\* The member files that postOrder does not name have valid dates, no two
\* of them the same.
DistinctDatesOutside(postOrder, files) ==
  \A f \in files : (\A k \in 1..Len(postOrder) : postOrder[k] # f.base) =>
    /\ ValidDate(f)
    /\ \A g \in files :
         ((\A k \in 1..Len(postOrder) : postOrder[k] # g.base) /\ g # f) =>
           (ValidDate(g) /\ DateGetTime(g.data.date) # DateGetTime(f.data.date))

\* C30 (scan-order independence), as claimed: when the member files that
\* postOrder does not name have pairwise distinct valid dates, every order
\* in which the directory scan can return the files of the module gives
\* the sequence getPostsByModule returned.
ScanOrderIndependence ==
  (/\ call.op = "getPostsByModule"
   /\ call.arg[1] \in ModuleNames
   /\ DistinctDatesOutside(PostOrderOf(call.arg[1]),
                           MemberFiles(EntryOf(call.arg[1])))) =>
    \A files \in ScanOrders(EntryOf(call.arg[1]).files) :
      PostsOfScan(files, getModuleBySlug(call.arg[1])[1]) = ret

=============================================================================
